---------------------------- MODULE Spec2Model ----------------------------
(***************************************************************************)
(* SafeBackup (src/main.rs): a filename validator, three command handlers  *)
(* (backup, restore, delete), an append-only logger and the interactive    *)
(* session driver, over a directory of files.                              *)
(*                                                                         *)
(* Three specifications: SpecValidate calls validate_filename once on any   *)
(* generated name; SpecCalls makes one call of a handler or runs one        *)
(* session on any directory, with any I/O failure; Spec runs sessions one   *)
(* after another.                                                          *)
(*                                                                         *)
(* Strings are sequences of one-character strings.  The directory is a     *)
(* partial map from path to node; a node is a directory or a regular file  *)
(* holding a sequence of chunks.  A chunk is one data byte or one log      *)
(* line; the local timestamp of a log line is left out of the line's       *)
(* value and counted in its length.                                        *)
(***************************************************************************)
EXTENDS Integers, Sequences, FiniteSets, TLC

VARIABLES
    fs,           \* the directory: [existing paths -> node]
    logWritable,  \* whether logfile.txt can be opened for append (permissions, space)
    last,         \* the last call made: its arguments, the directory before it, its outcome
    steps,        \* number of operations run so far
    rt,           \* history: the backup / mutate / restore sequence in progress
    gone          \* history: names removed by a confirmed delete and not re-created since

vars == <<fs, logWritable, last, steps, rt, gone>>

---------------------------------------------------------------------------
(* Bounds of the model *)

\* longest generated name, before padding
MaxShort == 2
\* operations per behaviour of Spec
MaxSteps == 3
\* most bytes in a user's file
MaxData == 1

---------------------------------------------------------------------------
(* Characters and strings *)

AsciiLower == {"a","b","c","d","e","f","g","h","i","j","k","l","m",
               "n","o","p","q","r","s","t","u","v","w","x","y","z"}
AsciiUpper == {"A","B","C","D","E","F","G","H","I","J","K","L","M",
               "N","O","P","Q","R","S","T","U","V","W","X","Y","Z"}
AsciiDigit == {"0","1","2","3","4","5","6","7","8","9"}
WhiteSpace == {" ", "\t", "\n", "\r"}

\* UTF-8 width of a character: everything the model uses is ASCII but "é"
Utf8Len(c) == IF c = "é" THEN 2 ELSE 1

\* str::len: the length in bytes (one per character, one more per two-byte character)
ByteLen(s) == Len(s) + Cardinality({i \in 1..Len(s) : Utf8Len(s[i]) = 2})

\* str::contains
Contains(s, pat) ==
    \E i \in 1..(Len(s) - Len(pat) + 1) : SubSeq(s, i, i + Len(pat) - 1) = pat

\* str::trim: leading and trailing white space removed
RECURSIVE TrimStart(_)
TrimStart(s) ==
    IF s # <<>> /\ Head(s) \in WhiteSpace THEN TrimStart(Tail(s)) ELSE s

RECURSIVE TrimEnd(_)
TrimEnd(s) ==
    IF s # <<>> /\ s[Len(s)] \in WhiteSpace
    THEN TrimEnd(SubSeq(s, 1, Len(s) - 1)) ELSE s

Trim(s) == TrimEnd(TrimStart(s))

\* char::to_lowercase on the characters the model uses
LowerOf(c) ==
    CASE c = "Y" -> "y" [] c = "E" -> "e" [] c = "S" -> "s" [] c = "N" -> "n"
      [] c = "O" -> "o" [] c = "B" -> "b" [] c = "A" -> "a" [] c = "C" -> "c"
      [] c = "K" -> "k" [] c = "U" -> "u" [] c = "P" -> "p" [] c = "R" -> "r"
      [] c = "T" -> "t" [] c = "D" -> "d" [] c = "L" -> "l" [] c = "Z" -> "z"
      [] OTHER -> c

ToLowercase(s) == [i \in 1..Len(s) |-> LowerOf(s[i])]

\* number of decimal digits of n, as "{}" prints it
RECURSIVE Digits(_)
Digits(n) == IF n < 10 THEN 1 ELSE 1 + Digits(n \div 10)

---------------------------------------------------------------------------
(* Errors: BackupError and its Display *)

NoPath == <<>>

Ok == [kind |-> "Ok", msg |-> "", path |-> NoPath]
InvalidFilename(m) == [kind |-> "InvalidFilename", msg |-> m, path |-> NoPath]
FileNotFound(p) == [kind |-> "FileNotFound", msg |-> "", path |-> p]
PathTraversal(p) == [kind |-> "PathTraversal", msg |-> "", path |-> p]
IoError(m) == [kind |-> "IoError", msg |-> m, path |-> NoPath]

\* length of "{}" of an error
DisplayLen(e) ==
    CASE e.kind = "InvalidFilename" -> Len("Invalid filename: ") + Len(e.msg)
      [] e.kind = "FileNotFound" -> Len("File not found: ") + ByteLen(e.path)
      [] e.kind = "IoError" -> Len("IO Error: ") + Len(e.msg)
      [] e.kind = "PathTraversal" -> Len("Path traversal attempt: ") + ByteLen(e.path)
      [] OTHER -> 0

---------------------------------------------------------------------------
(* The directory *)

LOG == <<"l","o","g","f","i","l","e",".","t","x","t">>
BAK == <<".","b","a","k">>

FileNode(content) == [type |-> "file", data |-> content]
DirNode == [type |-> "dir", data |-> <<>>]

Exists(f, p) == p \in DOMAIN f
IsFile(f, p) == p \in DOMAIN f /\ f[p].type = "file"
IsDir(f, p) == p \in DOMAIN f /\ f[p].type = "dir"

Put(f, p, node) == [q \in DOMAIN f \cup {p} |-> IF q = p THEN node ELSE f[q]]
Remove(f, p) == [q \in DOMAIN f \ {p} |-> f[q]]
ContentOf(f, p) == IF IsFile(f, p) THEN f[p].data ELSE <<>>

\* a data byte of a user's file
Byte(b) == [tag |-> "byte", name |-> NoPath, name2 |-> NoPath, bytes |-> b, err |-> Ok]

\* a line of the log: the action's format string and its arguments
Line(tag, n, n2, b, e) == [tag |-> tag, name |-> n, name2 |-> n2, bytes |-> b, err |-> e]

\* the format string of each action, its arguments left out
ActionText(tag) ==
    CASE tag = "traversal" -> "Security: Path traversal attempt blocked - "
      [] tag = "backup_notfound" -> "Backup failed: File not found - "
      [] tag = "backup_notfile" -> "Backup failed: Not a regular file - "
      [] tag = "backup_ok" -> "Backup successful:  ->  ( bytes)"
      [] tag = "restore_notfound" -> "Restore failed: Backup not found - "
      [] tag = "restore_ok" -> "Restore successful:  ->  ( bytes)"
      [] tag = "delete_notfound" -> "Delete failed: File not found - "
      [] tag = "delete_ok" -> "Delete successful: "
      [] tag = "delete_failed" -> "Delete failed:  - "
      [] tag = "delete_cancelled" -> "Delete cancelled by user: "
      [] tag = "session_started" -> "SafeBackup session started"
      [] tag = "session_terminated" -> "Session terminated: "
      [] tag = "unknown_command" -> "Unknown command attempted: "
      [] tag = "completed" -> "Operation completed successfully"
      [] tag = "failed" -> "Operation failed: "
      [] tag = "session_ended" -> "SafeBackup session ended"
      [] OTHER -> ""

HasCount(tag) == tag \in {"backup_ok", "restore_ok"}

\* bytes of one chunk: a data byte, or "[YYYY-MM-DD HH:MM:SS] <action>\n"
ChunkLen(c) ==
    IF c.tag = "byte" THEN 1
    ELSE Len("[YYYY-MM-DD HH:MM:SS] ") + Len(ActionText(c.tag))
         + ByteLen(c.name) + ByteLen(c.name2)
         + (IF HasCount(c.tag) THEN Digits(c.bytes) ELSE 0)
         + (IF c.tag = "delete_failed" THEN Len(c.err.msg) ELSE DisplayLen(c.err))
         + 1

RECURSIVE SizeFrom(_, _)
SizeFrom(content, i) ==
    IF i > Len(content) THEN 0 ELSE ChunkLen(content[i]) + SizeFrom(content, i + 1)

\* bytes of a file's content: what io::copy counts
Size(content) == SizeFrom(content, 1)

IsPrefix(s, t) == Len(s) <= Len(t) /\ SubSeq(t, 1, Len(s)) = s

---------------------------------------------------------------------------
(* log_action *)

\* OpenOptions::new().create(true).append(true).open("logfile.txt") and
\* write_all of one line; the open fails on a directory or without permission
log_action(f, w, line) ==
    IF ~w \/ IsDir(f, LOG)
    THEN [ok |-> FALSE, fs |-> f]
    ELSE [ok |-> TRUE, fs |-> Put(f, LOG, FileNode(ContentOf(f, LOG) \o <<line>>))]

IoLogMsg == "log"

---------------------------------------------------------------------------
(* validate_filename *)

\* Regex ^[a-zA-Z0-9._-]+$ : the whole text, at least one character
ValidChars == AsciiLower \cup AsciiUpper \cup AsciiDigit \cup {".", "_", "-"}
is_match(s) == Len(s) >= 1 /\ \A i \in 1..Len(s) : s[i] \in ValidChars

\* the length limit of a filename
NameMax == 255

IsTraversal(s) ==
    Contains(s, <<".", ".">>) \/ Contains(s, <<"/">>) \/ Contains(s, <<"\\">>)

\* validate_filename with the length check off by one (>= for >)
validate_filename_short(f, w, filename) ==
    IF filename = <<>>
    THEN [err |-> InvalidFilename("Filename cannot be empty"), fs |-> f]
    ELSE IF IsTraversal(filename)
    THEN LET l == log_action(f, w, Line("traversal", filename, NoPath, 0, Ok))
         IN  IF ~l.ok
             THEN [err |-> IoError(IoLogMsg), fs |-> l.fs]
             ELSE [err |-> PathTraversal(filename), fs |-> l.fs]
    ELSE IF ~is_match(filename)
    THEN [err |-> InvalidFilename("Filename contains invalid characters"), fs |-> f]
    ELSE IF ByteLen(filename) >= NameMax
    THEN [err |-> InvalidFilename("Filename too long (max 255 characters)"), fs |-> f]
    ELSE [err |-> Ok, fs |-> f]

\* validate_filename with the length check left out
validate_filename_nolimit(f, w, filename) ==
    IF filename = <<>>
    THEN [err |-> InvalidFilename("Filename cannot be empty"), fs |-> f]
    ELSE IF IsTraversal(filename)
    THEN LET l == log_action(f, w, Line("traversal", filename, NoPath, 0, Ok))
         IN  IF ~l.ok
             THEN [err |-> IoError(IoLogMsg), fs |-> l.fs]
             ELSE [err |-> PathTraversal(filename), fs |-> l.fs]
    ELSE IF ~is_match(filename)
    THEN [err |-> InvalidFilename("Filename contains invalid characters"), fs |-> f]
    ELSE [err |-> Ok, fs |-> f]

validate_filename(f, w, filename) ==
    IF filename = <<>>
    THEN [err |-> InvalidFilename("Filename cannot be empty"), fs |-> f]
    ELSE IF IsTraversal(filename)
    THEN LET l == log_action(f, w, Line("traversal", filename, NoPath, 0, Ok))
         IN  IF ~l.ok
             THEN [err |-> IoError(IoLogMsg), fs |-> l.fs]
             ELSE [err |-> PathTraversal(filename), fs |-> l.fs]
    ELSE IF ~is_match(filename)
    THEN [err |-> InvalidFilename("Filename contains invalid characters"), fs |-> f]
    ELSE IF ByteLen(filename) > NameMax
    THEN [err |-> InvalidFilename("Filename too long (max 255 characters)"), fs |-> f]
    ELSE [err |-> Ok, fs |-> f]

---------------------------------------------------------------------------
(* The copy of backup_file and restore_file *)

\* What the environment does to one call: the I/O step that fails, if any
\* ("open", "create", "copy", "flush" of a copy; "prompt", "remove" of a delete),
\* how many chunks reached the destination before a failed copy or flush, and
\* the line the operator answers the confirmation prompt with.
NoFault == "none"

\* File::open(src); File::create(dst); io::copy; writer.flush().
\* A failed step returns at once (the ? operator); the destination, once
\* created, is left truncated to what had reached it.
\* A directory opens for reading (its read then fails) or fails to open,
\* as the platform has it; a directory cannot be created over.
copy_file(f, src, dst, env) ==
    IF env.fault = "open" \/ ~Exists(f, src)
    THEN [ok |-> FALSE, fs |-> f, count |-> 0, msg |-> "open"]
    ELSE IF env.fault = "create" \/ IsDir(f, dst)
    THEN [ok |-> FALSE, fs |-> f, count |-> 0, msg |-> "create"]
    ELSE LET created == Put(f, dst, FileNode(<<>>))
             content == ContentOf(created, src)
             partial == SubSeq(content, 1, IF env.k <= Len(content) THEN env.k ELSE Len(content))
         IN  IF IsDir(f, src)
             THEN [ok |-> FALSE, fs |-> created, count |-> 0, msg |-> "copy"]
             ELSE IF env.fault \in {"copy", "flush"}
             THEN [ok |-> FALSE, fs |-> Put(created, dst, FileNode(partial)),
                   count |-> 0, msg |-> env.fault]
             ELSE [ok |-> TRUE, fs |-> Put(created, dst, FileNode(content)),
                   count |-> Size(content), msg |-> ""]

---------------------------------------------------------------------------
(* backup_file *)

Return(e, f, c, p) == [err |-> e, fs |-> f, count |-> c, prompted |-> p]

\* log_action(..)? : the error of a failed log write is returned as IoError
LogThen(f, w, line, e, c, p) ==
    LET l == log_action(f, w, line)
    IN  IF l.ok THEN Return(e, l.fs, c, p) ELSE Return(IoError(IoLogMsg), l.fs, -1, p)

\* backup_copied with the success record left out
backup_copied_silent(w, filename, backup_name, c) ==
    IF ~c.ok THEN Return(IoError(c.msg), c.fs, -1, FALSE)
    ELSE Return(Ok, c.fs, c.count, FALSE)

\* the copy done (c): a failed copy returns its error, a finished one is logged
backup_copied(w, filename, backup_name, c) ==
    IF ~c.ok THEN Return(IoError(c.msg), c.fs, -1, FALSE)
    ELSE LogThen(c.fs, w, Line("backup_ok", filename, backup_name, c.count, Ok),
                 Ok, c.count, FALSE)

\* the name validated (v): the existence checks, then the copy to <name>.bak
backup_validated(f, w, filename, env, v) ==
    IF v.err.kind # "Ok" THEN Return(v.err, v.fs, -1, FALSE)
    ELSE IF ~Exists(f, filename)
    THEN LogThen(f, w, Line("backup_notfound", filename, NoPath, 0, Ok),
                 FileNotFound(filename), -1, FALSE)
    ELSE IF ~IsFile(f, filename)
    THEN LogThen(f, w, Line("backup_notfile", filename, NoPath, 0, Ok),
                 InvalidFilename("Target is not a regular file"), -1, FALSE)
    ELSE backup_copied(w, filename, filename \o BAK,
                       copy_file(f, filename, filename \o BAK, env))

backup_file(f, w, filename, env) ==
    backup_validated(f, w, filename, env, validate_filename(f, w, filename))

---------------------------------------------------------------------------
(* restore_file *)

restore_copied(w, filename, backup_name, c) ==
    IF ~c.ok THEN Return(IoError(c.msg), c.fs, -1, FALSE)
    ELSE LogThen(c.fs, w, Line("restore_ok", backup_name, filename, c.count, Ok),
                 Ok, c.count, FALSE)

\* the name validated (v): the backup's existence check, then the copy back
restore_validated(f, w, filename, env, v) ==
    IF v.err.kind # "Ok" THEN Return(v.err, v.fs, -1, FALSE)
    ELSE IF ~Exists(f, filename \o BAK)
    THEN LogThen(f, w, Line("restore_notfound", filename \o BAK, NoPath, 0, Ok),
                 FileNotFound(filename \o BAK), -1, FALSE)
    ELSE restore_copied(w, filename, filename \o BAK,
                        copy_file(f, filename \o BAK, filename, env))

restore_file(f, w, filename, env) ==
    restore_validated(f, w, filename, env, validate_filename(f, w, filename))

---------------------------------------------------------------------------
(* delete_file *)

YES == <<"y", "e", "s">>

\* confirm.trim().to_lowercase()
Confirm(answer) == ToLowercase(Trim(answer))

\* fs::remove_file: fails on a directory, or as the environment has it
remove_file(f, p, env) ==
    IF env.fault = "remove" \/ ~IsFile(f, p)
    THEN [ok |-> FALSE, fs |-> f]
    ELSE [ok |-> TRUE, fs |-> Remove(f, p)]

\* the match on remove_file's result (r)
delete_removed(w, filename, r) ==
    IF r.ok
    THEN LogThen(r.fs, w, Line("delete_ok", filename, NoPath, 0, Ok), Ok, -1, TRUE)
    ELSE LogThen(r.fs, w, Line("delete_failed", filename, NoPath, 0, IoError("remove")),
                 IoError("remove"), -1, TRUE)

\* the name validated (v): the existence check, the prompt, the removal
delete_validated(f, w, filename, env, v) ==
    IF v.err.kind # "Ok" THEN Return(v.err, v.fs, -1, FALSE)
    ELSE IF ~Exists(f, filename)
    THEN LogThen(f, w, Line("delete_notfound", filename, NoPath, 0, Ok),
                 FileNotFound(filename), -1, FALSE)
    ELSE IF env.fault = "prompt"
    THEN Return(IoError("prompt"), f, -1, TRUE)
    ELSE IF Confirm(env.answer) = YES
    THEN delete_removed(w, filename, remove_file(f, filename, env))
    ELSE LogThen(f, w, Line("delete_cancelled", filename, NoPath, 0, Ok), Ok, -1, TRUE)

delete_file(f, w, filename, env) ==
    delete_validated(f, w, filename, env, validate_filename(f, w, filename))

---------------------------------------------------------------------------
(* main: one session *)

NEWLINE == <<"\n">>
BACKUP == <<"b","a","c","k","u","p">>
RESTORE == <<"r","e","s","t","o","r","e">>
DELETE == <<"d","e","l","e","t","e">>

\* log_action's result dropped (if let Err / let _ =): the session goes on
LogIgnore(f, w, line) == log_action(f, w, line).fs

Exit(code, h, name, cmd, r, f) ==
    [exit |-> code, handler |-> h, name |-> name, cmd |-> cmd, err |-> r.err,
     count |-> r.count, prompted |-> r.prompted, fs |-> f]

\* the match on the command: the handler's name and its result
Dispatch(f, w, filename, command, env) ==
    CASE command = BACKUP -> [handler |-> "backup", r |-> backup_file(f, w, filename, env)]
      [] command = RESTORE -> [handler |-> "restore", r |-> restore_file(f, w, filename, env)]
      [] command = DELETE -> [handler |-> "delete", r |-> delete_file(f, w, filename, env)]
      [] OTHER -> [handler |-> "none", r |-> Return(Ok, f, -1, FALSE)]

\* the handler returned (d): the result is logged and gives the exit status
main_dispatched(w, filename, command, d, f) ==
    IF d.handler = "none"
    THEN Exit(1, "none", filename, command, d.r,
              LogIgnore(f, w, Line("unknown_command", command, NoPath, 0, Ok)))
    ELSE IF d.r.err.kind # "Ok"
    THEN Exit(1, d.handler, filename, command, d.r,
              LogIgnore(d.r.fs, w, Line("failed", NoPath, NoPath, 0, d.r.err)))
    ELSE Exit(0, d.handler, filename, command, d.r,
              LogIgnore(LogIgnore(d.r.fs, w, Line("completed", NoPath, NoPath, 0, Ok)),
                        w, Line("session_ended", NoPath, NoPath, 0, Ok)))

\* main_validated with the early exit left out: the command is read and
\* dispatched whatever the validation said
main_validated_nogate(w, filename, command, env, v) ==
    main_dispatched(w, filename, command,
                    Dispatch(v.fs, w, filename, command, env), v.fs)

\* the early validation done (v): exit 1 on a rejected name, else read the command
main_validated(w, filename, command, env, v) ==
    IF v.err.kind # "Ok"
    THEN Exit(1, "none", filename, NoPath, Return(v.err, v.fs, -1, FALSE),
              LogIgnore(v.fs, w, Line("session_terminated", NoPath, NoPath, 0, v.err)))
    ELSE main_dispatched(w, filename, command,
                         Dispatch(v.fs, w, filename, command, env), v.fs)

\* the session logged as started (f): the filename is validated at once
main_started(f, w, filename, command, env) ==
    main_validated(w, filename, command, env, validate_filename(f, w, filename))

main(f, w, nameLine, cmdLine, env) ==
    main_started(LogIgnore(f, w, Line("session_started", NoPath, NoPath, 0, Ok)), w,
                 Trim(nameLine), ToLowercase(Trim(cmdLine)), env)

---------------------------------------------------------------------------
(* The call record and the history variables *)

NoEnv == [fault |-> NoFault, k |-> 0, answer |-> <<>>]
NoTrip == [stage |-> "idle", name |-> NoPath, content |-> <<>>, count |-> -1]
NoPre == [fs |-> <<>>, rt |-> NoTrip, gone |-> {}]

\* exit is the process's exit status after a session, and 0 after any other call
NoCall ==
    [op |-> "none", name |-> NoPath, cmd |-> NoPath, err |-> Ok, pre |-> NoPre,
     env |-> NoEnv, prompted |-> FALSE, handler |-> "none", exit |-> 0,
     count |-> -1]

Pre == [fs |-> fs, rt |-> rt, gone |-> gone]

\* a backup that succeeded opens a round trip on its file; a write of that file
\* keeps it open; anything else closes it
TripAfter(handler, name, err, count, before) ==
    IF handler = "backup" /\ err.kind = "Ok"
    THEN [stage |-> "backed", name |-> name, content |-> ContentOf(before, name),
          count |-> count]
    ELSE NoTrip

\* the files a delete removed and nothing has put back
GoneAfter(handler, name, before, after) ==
    LET now == IF handler = "delete" /\ Exists(before, name) THEN {name} ELSE {}
    IN  {x \in gone \cup now : ~Exists(after, x)}

---------------------------------------------------------------------------
(* Operations *)

Validate(name) ==
    LET v == validate_filename(fs, logWritable, name)
    IN  /\ fs' = v.fs
        /\ last' = [NoCall EXCEPT !.op = "validate", !.name = name, !.err = v.err,
                                  !.pre = Pre]
        /\ steps' = steps + 1
        /\ UNCHANGED <<logWritable, rt, gone>>

Handled(op, h, name, cmd, env, r, code) ==
    /\ fs' = r.fs
    /\ last' = [op |-> op, name |-> name, cmd |-> cmd, err |-> r.err, pre |-> Pre,
                env |-> env, prompted |-> r.prompted, handler |-> h,
                exit |-> code, count |-> r.count]
    /\ rt' = TripAfter(h, name, r.err, r.count, fs)
    /\ gone' = GoneAfter(h, name, fs, r.fs)
    /\ steps' = steps + 1
    /\ UNCHANGED logWritable

Backup(name, env) ==
    Handled("backup", "backup", name, NoPath, env, backup_file(fs, logWritable, name, env), 0)

Restore(name, env) ==
    Handled("restore", "restore", name, NoPath, env, restore_file(fs, logWritable, name, env), 0)

Delete(name, env) ==
    Handled("delete", "delete", name, NoPath, env, delete_file(fs, logWritable, name, env), 0)

Session(env, m) == Handled("main", m.handler, m.name, m.cmd, env, m, m.exit)

Main(nameLine, cmdLine, env) ==
    Session(env, main(fs, logWritable, nameLine, cmdLine, env))

\* the operator, or another program, rewrites a file of the directory
WriteFile(p, content) ==
    /\ ~IsDir(fs, p)
    /\ ContentOf(fs, p) # content \/ ~Exists(fs, p)
    /\ fs' = Put(fs, p, FileNode(content))
    /\ last' = [NoCall EXCEPT !.op = "write", !.name = p, !.pre = Pre]
    /\ rt' = IF rt.stage # "idle" /\ rt.name = p
             THEN [rt EXCEPT !.stage = "mutated"] ELSE NoTrip
    /\ gone' = gone \ {p}
    /\ steps' = steps + 1
    /\ UNCHANGED logWritable

---------------------------------------------------------------------------
(* Specification of the validator alone: one call on any name *)

Alphabet == {"a", "Z", "7", ".", "-", "_", "/", "\\", ";", "é"}

RECURSIVE StringsUpTo(_)
StringsUpTo(n) ==
    IF n = 0 THEN {<<>>}
    ELSE LET shorter == StringsUpTo(n - 1)
         IN  shorter \cup {Append(s, c) : s \in shorter, c \in Alphabet}

Pad(k) == [i \in 1..k |-> "a"]

\* short names, and the same names padded to either side of the length limit
PadLens == {0} \cup ((NameMax - MaxShort)..(NameMax + 1))
Names == {s \o Pad(k) : s \in StringsUpTo(MaxShort), k \in PadLens}

\* the log before the call: none, a file with a line, or a directory in its place
LogStates ==
    { <<>>,
      Put(<<>>, LOG, FileNode(<<Line("session_started", NoPath, NoPath, 0, Ok)>>)),
      Put(<<>>, LOG, DirNode) }

InitValidate ==
    /\ fs \in LogStates
    /\ logWritable \in BOOLEAN
    /\ last = NoCall
    /\ steps = 0
    /\ rt = NoTrip
    /\ gone = {}

CallValidate == \E name \in Names : last.op = "none" /\ Validate(name)

NextValidate == CallValidate

SpecValidate == InitValidate /\ [][NextValidate]_vars

---------------------------------------------------------------------------
(* Inputs of the handlers and of a session *)

A == <<"a">>
BadChars == <<"a", ";">>
Dots == <<".", ".", "/", "a">>
LongName == Pad(NameMax + 1)

\* a user's file holds up to MaxData bytes
RECURSIVE DataUpTo(_)
DataUpTo(n) ==
    IF n = 0 THEN {<<>>}
    ELSE LET shorter == DataUpTo(n - 1)
         IN  shorter \cup {Append(d, Byte(b)) : d \in shorter, b \in {0, 1}}

DataContents == DataUpTo(MaxData)

YesLine == <<"y","e","s","\n">>
Answers == { YesLine, <<" ","Y","E","S"," ","\n">>, <<"n","o","\n">>, <<"y","\n">>, <<"\n">> }

CopyEnvs ==
    {[fault |-> NoFault, k |-> 0, answer |-> <<>>]}
    \cup [fault : {"open", "create"}, k : {0}, answer : {<<>>}]
    \cup [fault : {"copy", "flush"}, k : 0..MaxData, answer : {<<>>}]

DeleteEnvs ==
    [fault : {NoFault}, k : {0}, answer : Answers]
    \cup {[fault |-> "remove", k |-> 0, answer |-> YesLine],
          [fault |-> "prompt", k |-> 0, answer |-> <<>>]}

HandlerNames == {A, LOG, BadChars, Dots, LongName, <<>>}

NameLines == {A \o NEWLINE, <<" ">> \o A \o <<" ", "\n">>, LOG \o NEWLINE,
              BadChars \o NEWLINE, Dots \o NEWLINE, LongName \o NEWLINE, NEWLINE, <<>>}

CopyLines == {BACKUP \o NEWLINE, <<"R","e","s","t","o","r","e"," ","\n">>}
DeleteLines == {<<" ">> \o DELETE \o NEWLINE}
OtherLines == {<<"z","a","p","\n">>, NEWLINE}

---------------------------------------------------------------------------
(* Specification of single calls: any handler or session, once, on any directory *)

Absent == [type |-> "absent", data |-> <<>>]

Entry(p, node) == IF node = Absent THEN <<>> ELSE (p :> node)

OldLog == FileNode(<<Line("session_started", NoPath, NoPath, 0, Ok),
                     Line("session_ended", NoPath, NoPath, 0, Ok)>>)

UserNodes == {Absent, DirNode} \cup {FileNode(d) : d \in DataContents}

\* the directory before the call: the file a, its backup, a file whose name
\* does not validate, the log and a backup of the log
Directories ==
    { Entry(A, a) @@ Entry(A \o BAK, b) @@ Entry(BadChars, FileNode(<<Byte(1)>>))
        @@ Entry(LOG, l) @@ Entry(LOG \o BAK, lb) :
      a \in UserNodes, b \in UserNodes, l \in {Absent, DirNode, OldLog},
      lb \in {Absent, FileNode(<<Line("session_started", NoPath, NoPath, 0, Ok)>>)} }

InitCalls ==
    /\ fs \in Directories
    /\ logWritable \in BOOLEAN
    /\ last = NoCall
    /\ steps = 0
    /\ rt = NoTrip
    /\ gone = {}

First == last.op = "none"

CallValidateName == \E name \in HandlerNames : First /\ Validate(name)
CallBackup == \E name \in HandlerNames, env \in CopyEnvs : First /\ Backup(name, env)
CallRestore == \E name \in HandlerNames, env \in CopyEnvs : First /\ Restore(name, env)
CallDelete == \E name \in HandlerNames, env \in DeleteEnvs : First /\ Delete(name, env)
RunCopy == \E nl \in NameLines, cl \in CopyLines, env \in CopyEnvs : First /\ Main(nl, cl, env)
RunDelete == \E nl \in NameLines, cl \in DeleteLines, env \in DeleteEnvs : First /\ Main(nl, cl, env)
RunOther == \E nl \in NameLines, cl \in OtherLines : First /\ Main(nl, cl, NoEnv)

NextCalls ==
    CallValidateName \/ CallBackup \/ CallRestore \/ CallDelete \/ RunCopy \/ RunDelete \/ RunOther

SpecCalls == InitCalls /\ [][NextCalls]_vars

---------------------------------------------------------------------------
(* Specification of the program in use: sessions one after another, the      *)
(* operator rewriting files in between; the environment's I/O does not fail, *)
(* the log aside                                                             *)

SessionLines == {A \o NEWLINE, LOG \o NEWLINE, Dots \o NEWLINE}
SessionAnswers == {<<"y","e","s","\n">>, <<"n","o","\n">>}

Init ==
    /\ fs \in { Entry(A, FileNode(d)) @@ Entry(BadChars, FileNode(<<Byte(1)>>))
                  @@ Entry(LOG, l) : d \in DataContents, l \in {Absent, OldLog} }
    /\ logWritable \in BOOLEAN
    /\ last = NoCall
    /\ steps = 0
    /\ rt = NoTrip
    /\ gone = {}

More == steps < MaxSteps

SessionCopy == \E nl \in SessionLines, cl \in CopyLines : More /\ Main(nl, cl, NoEnv)
SessionDelete ==
    \E nl \in SessionLines, cl \in DeleteLines, ans \in SessionAnswers :
        More /\ Main(nl, cl, [NoEnv EXCEPT !.answer = ans])
SessionOther == \E nl \in SessionLines : More /\ Main(nl, <<"z","a","p","\n">>, NoEnv)
Rewrite == \E d \in DataContents : More /\ WriteFile(A, d)

Next == SessionCopy \/ SessionDelete \/ SessionOther \/ Rewrite

Spec == Init /\ [][Next]_vars

---------------------------------------------------------------------------
(* Vocabulary of the properties *)

\* a filename as the data model has it: 1 to 255 characters, each an ASCII
\* letter, a digit, '.', '-' or '_', with no "..", no '/', no '\'
NameClass == AsciiLower \cup AsciiUpper \cup AsciiDigit \cup {".", "-", "_"}
InClass(s) == \A i \in 1..Len(s) : s[i] \in NameClass
HasDotDot(s) == \E i \in 1..(Len(s) - 1) : s[i] = "." /\ s[i + 1] = "."
HasSlash(s) == \E i \in 1..Len(s) : s[i] \in {"/", "\\"}
Acceptable(s) == Len(s) \in 1..255 /\ InClass(s) /\ ~HasDotDot(s) /\ ~HasSlash(s)

LogOf(f) == ContentOf(f, LOG)
\* the lines the last call added to the log, when it only added
Added == SubSeq(LogOf(fs), Len(LogOf(last.pre.fs)) + 1, Len(LogOf(fs)))
OnlyAdded == IsPrefix(LogOf(last.pre.fs), LogOf(fs))

\* the paths whose node differs between two directories
Changed(f, g) ==
    {p \in DOMAIN f \cup DOMAIN g :
        \/ (p \in DOMAIN f) # (p \in DOMAIN g)
        \/ (p \in DOMAIN f /\ p \in DOMAIN g /\ f[p] # g[p])}

Handlers == {"backup", "restore", "delete"}

---------------------------------------------------------------------------
(* Properties of validate_filename, under SpecValidate *)

\* C1: every string that contains "..", '/' or '\' is rejected with
\* PathTraversal, and the call appends exactly one log record, which records
\* the blocked name.
C1_TraversalRejectedAndLogged ==
    (last.op = "validate" /\ (HasDotDot(last.name) \/ HasSlash(last.name)))
        => /\ last.err.kind = "PathTraversal"
           /\ OnlyAdded
           /\ Added = <<Line("traversal", last.name, NoPath, 0, Ok)>>

\* C2: every string of 1 to 255 characters drawn from ASCII letters, digits,
\* '.', '-' and '_' with no ".." is accepted, and the call changes nothing: no
\* log record, no file.
C2_ValidAccepted ==
    (last.op = "validate" /\ Len(last.name) \in 1..255 /\ InClass(last.name)
                          /\ ~HasDotDot(last.name))
        => (last.err = Ok /\ fs = last.pre.fs)

\* a name of exactly 255 characters, dots and dashes among them, was accepted
C2_Witness ==
    /\ last.op = "validate" /\ Len(last.name) = 255 /\ last.err.kind = "Ok"
    /\ last.name[1] = "." /\ last.name[2] = "-"

\* C5 as stated: every string longer than 255 characters, whatever else it
\* contains, is rejected with InvalidFilename.
C5_LongRejectedInvalid ==
    (last.op = "validate" /\ Len(last.name) > 255)
        => last.err.kind = "InvalidFilename"

\* C5 as amended: a string longer than 255 characters is rejected with
\* InvalidFilename when it contains no "..", '/' or '\'; when it contains one,
\* the traversal check, which comes first, rejects it (PathTraversal, or the
\* IoError of that check's log write).
C5_LongRejected ==
    (last.op = "validate" /\ Len(last.name) > 255)
        => IF HasDotDot(last.name) \/ HasSlash(last.name)
           THEN last.err.kind \in {"PathTraversal", "IoError"}
           ELSE last.err.kind = "InvalidFilename"

\* a name of 256 valid characters was rejected for its length
C5_Witness ==
    /\ last.op = "validate" /\ Len(last.name) = 256 /\ InClass(last.name)
    /\ last.err = InvalidFilename("Filename too long (max 255 characters)")

---------------------------------------------------------------------------
(* Properties of one call, under SpecCalls *)

\* C3: validation gates every mutation.  A session whose filename does not
\* validate changes no file but the log, runs no handler and exits non-zero; a
\* handler called with such a name returns validation's rejection and changes no
\* file but the log; and whatever the name, a session or a handler changes only
\* the name, the name + ".bak" and the log.
C3_ValidationGates ==
    /\ (last.op = "main" /\ ~Acceptable(last.name))
           => /\ Changed(last.pre.fs, fs) \subseteq {LOG}
              /\ last.handler = "none"
              /\ last.exit # 0
    /\ (last.op \in Handlers /\ ~Acceptable(last.name))
           => /\ Changed(last.pre.fs, fs) \subseteq {LOG}
              /\ last.err.kind \in {"InvalidFilename", "PathTraversal", "IoError"}
              /\ last.err.msg # "Target is not a regular file"
              /\ ~last.prompted
    /\ (last.op \in Handlers \cup {"main"})
           => Changed(last.pre.fs, fs) \subseteq {last.name, last.name \o BAK, LOG}

\* a session was given the name of an existing file that does not validate, and
\* a command line a handler answers to: it exited 1 and the file is as it was
C3_Witness ==
    /\ last.op = "main" /\ last.name = BadChars /\ last.exit = 1
    /\ IsFile(last.pre.fs, BadChars) /\ fs[BadChars] = last.pre.fs[BadChars]
    /\ last.err.kind = "InvalidFilename"

\* the same call on the same directory with the log writable
IfLogged ==
    CASE last.op = "validate" ->
            [err |-> validate_filename(last.pre.fs, TRUE, last.name).err,
             fs |-> validate_filename(last.pre.fs, TRUE, last.name).fs]
      [] last.op = "backup" ->
            [err |-> backup_file(last.pre.fs, TRUE, last.name, last.env).err,
             fs |-> backup_file(last.pre.fs, TRUE, last.name, last.env).fs]
      [] last.op = "restore" ->
            [err |-> restore_file(last.pre.fs, TRUE, last.name, last.env).err,
             fs |-> restore_file(last.pre.fs, TRUE, last.name, last.env).fs]
      [] OTHER ->
            [err |-> delete_file(last.pre.fs, TRUE, last.name, last.env).err,
             fs |-> delete_file(last.pre.fs, TRUE, last.name, last.env).fs]

\* C6: a log write that fails inside validate_filename or a handler changes
\* neither the call's outcome nor its file effects: both are those of the same
\* call with the log writable.
C6_LogFailureNotEscalated ==
    (last.op \in Handlers \cup {"validate"} /\ ~logWritable)
        => /\ last.err.kind = IfLogged.err.kind
           /\ Changed(fs, IfLogged.fs) \subseteq {LOG}

\* C8: delete of an existing file with a valid name and an answer that is not
\* "yes" once trimmed and lower-cased leaves the file as it was, appends the
\* cancellation record and returns success.
C8_CancelKeepsFile ==
    (/\ last.op = "delete" /\ Acceptable(last.name) /\ IsFile(last.pre.fs, last.name)
     /\ last.env.fault = NoFault /\ Confirm(last.env.answer) # YES)
        => /\ IsFile(fs, last.name) /\ fs[last.name] = last.pre.fs[last.name]
           /\ OnlyAdded
           /\ Added = <<Line("delete_cancelled", last.name, NoPath, 0, Ok)>>
           /\ last.err.kind = "Ok"

\* C10 as stated: every call of the backup handler appends exactly one outcome
\* record of its own, however the call ends (stated of the calls whose log can
\* be written).
C10_AlwaysOneRecord ==
    (last.op = "backup" /\ logWritable /\ ~IsDir(last.pre.fs, LOG))
        => /\ OnlyAdded
           /\ Len(Added) = 1
           /\ Added[1].tag \in {"backup_ok", "backup_notfound", "backup_notfile"}

\* C10 as amended: a call of the backup handler appends at most one record:
\* exactly one when it returns success, FileNotFound, the not-a-regular-file
\* InvalidFilename or PathTraversal (the record of that outcome, the traversal
\* record being validate_filename's), and none when it returns validation's
\* InvalidFilename or an IoError (open, create, copy, flush, or the log write).
C10_OneRecordWhereLogged ==
    (last.op = "backup")
        => /\ OnlyAdded
           /\ Added =
                CASE last.err.kind = "Ok" ->
                        <<Line("backup_ok", last.name, last.name \o BAK,
                               Size(ContentOf(last.pre.fs, last.name)), Ok)>>
                  [] last.err.kind = "FileNotFound" ->
                        <<Line("backup_notfound", last.name, NoPath, 0, Ok)>>
                  [] last.err = InvalidFilename("Target is not a regular file") ->
                        <<Line("backup_notfile", last.name, NoPath, 0, Ok)>>
                  [] last.err.kind = "PathTraversal" ->
                        <<Line("traversal", last.name, NoPath, 0, Ok)>>
                  [] OTHER -> <<>>

\* a backup whose copy failed midway returned IoError and logged nothing, with
\* the log writable
C10_Witness ==
    /\ last.op = "backup" /\ last.env.fault = "copy" /\ last.err = IoError("copy")
    /\ logWritable /\ IsFile(fs, LOG) /\ LogOf(fs) = LogOf(last.pre.fs)
    /\ IsFile(fs, last.name \o BAK)

---------------------------------------------------------------------------
(* Properties of sessions in sequence, under Spec *)

\* C4: backup(F), then any rewriting of F, then restore(F) leaves F holding the
\* content C it had at the backup, and both the backup and the restore report
\* len(C) bytes (count is the byte count the success record carries).
C4_RoundTrip ==
    (/\ last.handler = "restore" /\ last.pre.rt.stage \in {"backed", "mutated"}
     /\ last.pre.rt.name = last.name)
        => /\ IsFile(fs, last.name)
           /\ ContentOf(fs, last.name) = last.pre.rt.content
           /\ last.pre.rt.count = Size(last.pre.rt.content)
           /\ last.count = Size(last.pre.rt.content)

\* C7: the log only grows: after a session on a valid name, whatever the
\* command and the answer, the log is its earlier content followed by zero or
\* more records, and is still a file if it was one (stated of the sessions
\* whose log can be written, where records are in fact appended).
C7_LogAppendOnly ==
    (last.op = "main" /\ Acceptable(last.name) /\ logWritable)
        => /\ IsPrefix(LogOf(last.pre.fs), LogOf(fs))
           /\ (IsFile(last.pre.fs, LOG) => IsFile(fs, LOG))

\* C9: delete of an existing file confirmed with "yes" removes it and appends
\* the success record; a later delete of the same name, the file not having
\* been re-created, fails with FileNotFound before any prompt.
C9_DeleteThenNotFound ==
    /\ (/\ last.handler = "delete" /\ IsFile(last.pre.fs, last.name)
        /\ last.env.fault = NoFault /\ Confirm(last.env.answer) = YES)
           => /\ ~Exists(fs, last.name)
              /\ \E i \in 1..Len(LogOf(fs)) :
                     LogOf(fs)[i] = Line("delete_ok", last.name, NoPath, 0, Ok)
    /\ (last.handler = "delete" /\ last.name \in last.pre.gone)
           => (last.err.kind = "FileNotFound" /\ ~last.prompted)

=============================================================================
